---- MODULE Spec2Model ----
(***************************************************************************)
(* LoopTreeAgent (include/loop_tool/agent.h): a (tree, cursor) pair, the   *)
(* nineteen named actions it dispatches to the mutation engine and to      *)
(* navigation, the three metrics, get_available_actions, serialize,        *)
(* deserialize, dump and the copy constructor.                             *)
(*                                                                         *)
(* The agent is translated from agent.h.  The loop tree, the mutation      *)
(* engine (mutate.h), navigation, the metrics, the graph a tree carries    *)
(* and its serialization (serialization.h) are not part of the sources at  *)
(* hand; they are modelled from sections 3, 4.1-4.4 and 6 of the           *)
(* specification.                                                          *)
(***************************************************************************)
EXTENDS Integers, Sequences, FiniteSets, TLC

\* Largest number of nodes a tree may have in the model: a split or a
\* copy_input that would exceed it is not taken.
MaxNodes == 3

\* Largest extent a loop may have in the model: a split or a merge that
\* would exceed it is not taken.
MaxExtent == 256

\* Largest number of calls made on an agent and its copy together.
MaxCalls == 5

\* The value of a TreeRef that is no node (navigation's sentinel).
NoRef == 0 - 1

\* lt:      LoopTreeAgent::lt, the agent's current tree
\* cursor:  LoopTreeAgent::cursor, a TreeRef
\* navMode: what navigation does at a boundary, fixed for a run
\* last:    what the call made last returned or threw, until the caller
\*          takes it
\* copied:  a second agent, made from this one by the copy constructor, or
\*          NoAgent while there is none
\* calls:   the number of calls made on the two agents
VARIABLES lt, cursor, navMode, last, copied, calls

vars == <<lt, cursor, navMode, last, copied, calls>>

----------------------------------------------------------------------------
(* Loop tree: the nodes in traversal order (depth first, children in order), *)
(* each with its depth.  A TreeRef is the 0-based position in that order.     *)

Loop(v, e, d) ==
    [kind |-> "loop", depth |-> d, var |-> v, extent |-> e,
     annotation |-> "", reuse |-> FALSE,
     op |-> "", out |-> NoRef, ins |-> <<>>, flops |-> 0]

Leaf(o, res, args, f, d) ==
    [kind |-> "leaf", depth |-> d, var |-> "", extent |-> 1,
     annotation |-> "", reuse |-> FALSE,
     op |-> o, out |-> res, ins |-> args, flops |-> f]

Refs(t) == 0 .. (Len(t) - 1)

IsRef(t, r) == r \in Refs(t)

Node(t, r) == t[r + 1]

IsLoop(t, r) == IsRef(t, r) /\ Node(t, r).kind = "loop"

IsLeaf(t, r) == IsRef(t, r) /\ Node(t, r).kind = "leaf"

SetMax(S) == CHOOSE x \in S : \A y \in S : y <= x

SetMin(S) == CHOOSE x \in S : \A y \in S : x <= y

\* The last TreeRef of the subtree rooted at r.
SubtreeEnd(t, r) ==
    LET inside == {j \in (r + 1) .. (Len(t) - 1) :
                     \A m \in (r + 1) .. j : Node(t, m).depth > Node(t, r).depth}
    IN  IF inside = {} THEN r ELSE SetMax(inside)

Children(t, r) ==
    {j \in (r + 1) .. SubtreeEnd(t, r) : Node(t, j).depth = Node(t, r).depth + 1}

\* The loops enclosing r.
Ancestors(t, r) ==
    {j \in 0 .. (r - 1) : Node(t, j).kind = "loop" /\ r <= SubtreeEnd(t, j)}

Parent(t, r) ==
    IF Ancestors(t, r) = {} THEN NoRef ELSE SetMax(Ancestors(t, r))

RECURSIVE SetProduct(_, _)
SetProduct(t, S) ==
    IF S = {} THEN 1
    ELSE LET j == SetMin(S) IN Node(t, j).extent * SetProduct(t, S \ {j})

RECURSIVE SortedSeq(_)
SortedSeq(S) ==
    IF S = {} THEN <<>>
    ELSE LET x == SetMin(S) IN <<x>> \o SortedSeq(S \ {x})

SeqRange(s) == {s[i] : i \in 1 .. Len(s)}

Ceil(n, k) == (n + k - 1) \div k

----------------------------------------------------------------------------
(* Results of the engine: a new tree, or a failure that leaves none. *)

EngineOk(t) == [ok |-> TRUE, err |-> "none", lt |-> t]

EngineFail(e) == [ok |-> FALSE, err |-> e, lt |-> <<>>]

----------------------------------------------------------------------------
(* Navigation (section 4.2).  At a boundary, and for a ref that is no node, *)
(* navigation either fails or returns the sentinel NoRef; which of the two  *)
(* is fixed for a run (navMode).                                            *)

NavModes == {"fail", "sentinel"}

NavOk(r) == [ok |-> TRUE, err |-> "none", ref |-> r]

NavBoundary(m) ==
    IF m = "fail"
    THEN [ok |-> FALSE, err |-> "IllegalMutation", ref |-> NoRef]
    ELSE NavOk(NoRef)

previous_ref(t, r, m) ==
    IF IsRef(t, r) /\ r > 0 THEN NavOk(r - 1) ELSE NavBoundary(m)

next_ref(t, r, m) ==
    IF IsRef(t, r) /\ r < Len(t) - 1 THEN NavOk(r + 1) ELSE NavBoundary(m)

----------------------------------------------------------------------------
(* Mutation engine (section 4.3): pure functions from a tree to a new tree. *)

\* split: the loop at r becomes an outer loop of extent ceil(N/k) with an
\* inner loop of extent k directly beneath it; the former descendants move
\* under the inner loop.
split(t, r, k) ==
    IF ~IsLoop(t, r) \/ k <= 0 THEN EngineFail("IllegalMutation")
    ELSE LET n     == Node(t, r)
             e     == SubtreeEnd(t, r)
             outer == [n EXCEPT !.extent = Ceil(n.extent, k)]
             inner == Loop(n.var, k, n.depth + 1)
         IN  EngineOk([i \in 1 .. (Len(t) + 1) |->
                 IF i <= r THEN t[i]
                 ELSE IF i = r + 1 THEN outer
                 ELSE IF i = r + 2 THEN inner
                 ELSE IF i - 1 <= e + 1 THEN [t[i - 1] EXCEPT !.depth = @ + 1]
                 ELSE t[i - 1]])

\* merge: a loop whose single child is a loop collapses with it into one loop
\* whose extent is the product of the two extents.
merge(t, r) ==
    IF ~IsLoop(t, r) THEN EngineFail("IllegalMutation")
    ELSE IF Children(t, r) # {r + 1} \/ ~IsLoop(t, r + 1)
    THEN EngineFail("IllegalMutation")
    ELSE LET n      == Node(t, r)
             c      == Node(t, r + 1)
             e      == SubtreeEnd(t, r)
             merged == [n EXCEPT !.extent = n.extent * c.extent]
         IN  EngineOk([i \in 1 .. (Len(t) - 1) |->
                 IF i <= r THEN t[i]
                 ELSE IF i = r + 1 THEN merged
                 ELSE IF i + 1 <= e + 1 THEN [t[i + 1] EXCEPT !.depth = @ - 1]
                 ELSE t[i + 1]])

\* A read that the swap would move before the write it depends on.
Depends(t, a, b) == Node(t, a).out \in SeqRange(Node(t, b).ins)

\* try_swap: ref and other must be adjacent in traversal order.  Two nested
\* loops (the outer one having the inner one as its only child) trade their
\* nesting order; two sibling leaves without a dependency trade position.
try_swap(t, ref, other) ==
    IF ~IsRef(t, ref) \/ ~IsRef(t, other) THEN EngineFail("IllegalMutation")
    ELSE IF ref - other \notin {1, 0 - 1} THEN EngineFail("IllegalMutation")
    ELSE LET a == IF ref < other THEN ref ELSE other
             b == a + 1
             exchanged == [i \in 1 .. Len(t) |->
                 IF i = a + 1 THEN [t[b + 1] EXCEPT !.depth = t[a + 1].depth]
                 ELSE IF i = b + 1 THEN [t[a + 1] EXCEPT !.depth = t[b + 1].depth]
                 ELSE t[i]]
         IN  IF IsLoop(t, a) /\ IsLoop(t, b) /\ Children(t, a) = {b}
             THEN EngineOk(exchanged)
             ELSE IF IsLeaf(t, a) /\ IsLeaf(t, b)
                     /\ Node(t, a).depth = Node(t, b).depth
                     /\ ~Depends(t, a, b)
             THEN EngineOk(exchanged)
             ELSE EngineFail("IllegalMutation")

\* annotate: sets the annotation of a loop; "" clears it.
annotate(t, r, text) ==
    IF ~IsLoop(t, r) THEN EngineFail("IllegalMutation")
    ELSE EngineOk([t EXCEPT ![r + 1].annotation = text])

\* LoopTree::annotation(ref), the read access of section 4.1.  Access by a
\* ref that is no node of the tree is an error of the tree, not a legality
\* failure of the mutation engine (sections 7 and 9).
annotation(t, r) ==
    IF IsRef(t, r) THEN [ok |-> TRUE, err |-> "none", text |-> Node(t, r).annotation]
    ELSE [ok |-> FALSE, err |-> "InvalidRef", text |-> ""]

LeavesUnder(t, r) == {j \in r .. SubtreeEnd(t, r) : Node(t, j).kind = "leaf"}

\* The tensors consumed under r and not produced under r.
InputSet(t, r) ==
    {x \in UNION {SeqRange(Node(t, j).ins) : j \in LeavesUnder(t, r)} :
        \A j \in LeavesUnder(t, r) : Node(t, j).out # x}

get_inputs(t, r) ==
    IF IsRef(t, r) THEN [ok |-> TRUE, err |-> "none", ids |-> SortedSeq(InputSet(t, r))]
    ELSE [ok |-> FALSE, err |-> "InvalidRef", ids |-> <<>>]

FreshTensor(t) ==
    1 + SetMax({0} \cup {Node(t, j).out : j \in Refs(t)}
                   \cup UNION {SeqRange(Node(t, j).ins) : j \in Refs(t)})

\* copy_input: a leaf that materializes input x is inserted, scoped at r (the
\* first child of a loop, or right before a leaf); the consumers under r read
\* the copy.
copy_input(t, r, x) ==
    IF ~IsRef(t, r) THEN EngineFail("IllegalMutation")
    ELSE IF x \notin InputSet(t, r) THEN EngineFail("IllegalMutation")
    ELSE LET y    == FreshTensor(t)
             e    == SubtreeEnd(t, r)
             at   == IF IsLoop(t, r) THEN r + 1 ELSE r
             d    == IF IsLoop(t, r) THEN Node(t, r).depth + 1 ELSE Node(t, r).depth
             copy == Leaf("copy", y, <<x>>, 0, d)
             reads(n) == [n EXCEPT !.ins =
                             [i \in 1 .. Len(n.ins) |-> IF n.ins[i] = x THEN y ELSE n.ins[i]]]
             moved(j) == IF j >= r /\ j <= e /\ Node(t, j).kind = "leaf"
                         THEN reads(Node(t, j)) ELSE Node(t, j)
         IN  EngineOk([i \in 1 .. (Len(t) + 1) |->
                 IF i - 1 < at THEN moved(i - 1)
                 ELSE IF i - 1 = at THEN copy
                 ELSE moved(i - 2)])

\* increase_reuse / decrease_reuse: the loop at r is taken into (out of) the
\* scope that shares one materialization of the buffers produced beneath it.
increase_reuse(t, r) ==
    IF ~IsLoop(t, r) \/ LeavesUnder(t, r) = {} THEN EngineFail("IllegalMutation")
    ELSE IF Node(t, r).reuse THEN EngineFail("IllegalMutation")
    ELSE EngineOk([t EXCEPT ![r + 1].reuse = TRUE])

decrease_reuse(t, r) ==
    IF ~IsLoop(t, r) \/ LeavesUnder(t, r) = {} THEN EngineFail("IllegalMutation")
    ELSE IF ~Node(t, r).reuse THEN EngineFail("IllegalMutation")
    ELSE EngineOk([t EXCEPT ![r + 1].reuse = FALSE])

----------------------------------------------------------------------------
(* Metrics (section 4.4). *)

RECURSIVE SumFlops(_, _)
SumFlops(t, S) ==
    IF S = {} THEN 0
    ELSE LET j == SetMin(S)
         IN  Node(t, j).flops * SetProduct(t, Ancestors(t, j)) + SumFlops(t, S \ {j})

\* FLOPs: over all leaves, the product of the extents of the enclosing loops
\* times the operation's per-element op count.
FLOPs(t) == SumFlops(t, {j \in Refs(t) : Node(t, j).kind = "leaf"})

\* The backend's lower_and_run (section 6): a measured time, or a
\* LoweringUnsupported failure.
BackendOutcomes ==
    {[ok |-> FALSE, secs |-> 0]} \cup {[ok |-> TRUE, secs |-> x] : x \in {0, 2}}

eval_runtime(t, b) ==
    IF b.ok THEN [ok |-> TRUE, err |-> "none", val |-> b.secs]
    ELSE [ok |-> FALSE, err |-> "LoweringUnsupported", val |-> 0]

\* FLOPS = FLOPs / seconds, undefined when seconds is zero or failed.
FLOPS(t, b) ==
    IF ~b.ok THEN [ok |-> FALSE, err |-> "LoweringUnsupported", val |-> 0]
    ELSE IF b.secs = 0 THEN [ok |-> FALSE, err |-> "Undefined", val |-> 0]
    ELSE [ok |-> TRUE, err |-> "none", val |-> FLOPs(t) \div b.secs]

----------------------------------------------------------------------------
(* Text: a std::string as the sequence of its characters.  A name in the    *)
(* graph's text ("add", "vectorize") stands as one character.               *)

Digit == <<"0", "1", "2", "3", "4", "5", "6", "7", "8", "9">>

IsDigit(ch) == \E d \in 1 .. Len(Digit) : Digit[d] = ch

DigitValue(ch) == (CHOOSE d \in 1 .. Len(Digit) : Digit[d] = ch) - 1

IsSpace(ch) == ch \in {" ", "\t", "\n"}

RECURSIVE Digits(_)
Digits(n) ==
    IF n < Len(Digit) THEN <<Digit[n + 1]>>
    ELSE Digits(n \div Len(Digit)) \o <<Digit[(n % Len(Digit)) + 1]>>

\* std::to_string of an int.
to_string(n) == IF n < 0 THEN <<"-">> \o Digits(0 - n) ELSE Digits(n)

\* The value of a run of digits.
RECURSIVE DigitsValue(_)
DigitsValue(ds) ==
    IF ds = <<>> THEN 0
    ELSE Len(Digit) * DigitsValue(SubSeq(ds, 1, Len(ds) - 1)) + DigitValue(ds[Len(ds)])

\* std::string::find(ch) stored in an int: the position of the first ch,
\* counted from 0, or npos, which the int holds as -1.
find(s, ch) ==
    LET at == {i \in 1 .. Len(s) : s[i] = ch}
    IN  IF at = {} THEN 0 - 1 ELSE SetMin(at) - 1

\* std::string::substr(pos, count) for pos <= size: count is a size_t, so a
\* negative int is npos, and a count past the end stops at the end.
substr(s, pos, count) ==
    IF count < 0 \/ pos + count > Len(s) THEN SubSeq(s, pos + 1, Len(s))
    ELSE SubSeq(s, pos + 1, pos + count)

\* std::stoi: leading white space is skipped, then an optional sign and the
\* longest run of digits are converted; what follows the digits is ignored.
\* Without a digit to convert it throws (std::invalid_argument).
stoi(s) ==
    LET NonSpace == {i \in 1 .. Len(s) : ~IsSpace(s[i])}
        start    == IF NonSpace = {} THEN Len(s) + 1 ELSE SetMin(NonSpace)
        signed   == start <= Len(s) /\ s[start] \in {"-", "+"}
        first    == IF signed THEN start + 1 ELSE start
        NonDigit == {i \in first .. Len(s) : ~IsDigit(s[i])}
        stop     == IF NonDigit = {} THEN Len(s) + 1 ELSE SetMin(NonDigit)
        v        == DigitsValue(SubSeq(s, first, stop - 1))
    IN  IF stop = first
        THEN [ok |-> FALSE, err |-> "MalformedSerialization", val |-> 0]
        ELSE [ok |-> TRUE, err |-> "none",
              val |-> IF signed /\ s[start] = "-" THEN 0 - v ELSE v]

\* The pieces of s between the occurrences of sep.
RECURSIVE SplitAt(_, _)
SplitAt(s, sep) ==
    LET i == find(s, sep)
    IN  IF i < 0 THEN <<s>>
        ELSE <<SubSeq(s, 1, i)>> \o SplitAt(SubSeq(s, i + 2, Len(s)), sep)

RECURSIVE Flatten(_)
Flatten(ss) == IF ss = <<>> THEN <<>> ELSE Head(ss) \o Flatten(Tail(ss))

----------------------------------------------------------------------------
(* The graph a tree is built from and carries (lt.ir), with its schedule:   *)
(* the operations in execution order, each with the loops around it, the    *)
(* outermost first (sections 2, 3 and 6).                                   *)

LoopOf(n) ==
    [var |-> n.var, extent |-> n.extent, annotation |-> n.annotation,
     reuse |-> n.reuse]

\* lt.ir
IR(t) ==
    LET leaves == SortedSeq({j \in Refs(t) : Node(t, j).kind = "leaf"})
    IN  [k \in 1 .. Len(leaves) |->
            LET n     == Node(t, leaves[k])
                above == SortedSeq(Ancestors(t, leaves[k]))
            IN  [op |-> n.op, out |-> n.out, ins |-> n.ins, flops |-> n.flops,
                 order |-> [d \in 1 .. Len(above) |-> LoopOf(Node(t, above[d]))]]]

\* The number of leading loops two operations share.
CommonPrefix(a, b) ==
    SetMax({0} \cup {n \in 1 .. Len(a) : n <= Len(b) /\ SubSeq(a, 1, n) = SubSeq(b, 1, n)})

\* The nodes of the operations from the k-th on: an operation opens the
\* loops it does not share with the operation before it.
RECURSIVE Build(_, _)
Build(ir, k) ==
    IF k > Len(ir) THEN <<>>
    ELSE LET e == ir[k]
             p == IF k = 1 THEN 0 ELSE CommonPrefix(ir[k - 1].order, e.order)
             opened == [d \in 1 .. (Len(e.order) - p) |->
                          [Loop(e.order[p + d].var, e.order[p + d].extent, p + d - 1)
                              EXCEPT !.annotation = e.order[p + d].annotation,
                                     !.reuse = e.order[p + d].reuse]]
         IN  opened \o <<Leaf(e.op, e.out, e.ins, e.flops, Len(e.order))>>
                    \o Build(ir, k + 1)

\* LoopTree::LoopTree(const IR&)
LoopTree(ir) == Build(ir, 1)

----------------------------------------------------------------------------
(* Serialization of the graph (section 6): one line per operation, its name, *)
(* result, op count and inputs, then its loops.                              *)

LoopText(l) ==
    <<";", l.var, ",">> \o Digits(l.extent) \o <<",">>
        \o (IF l.annotation = "" THEN <<>> ELSE <<l.annotation>>)
        \o <<",", IF l.reuse THEN "r" ELSE "n">>

OpLine(e) ==
    <<e.op, ",">> \o Digits(e.out) \o <<",">> \o Digits(e.flops)
        \o Flatten([i \in 1 .. Len(e.ins) |-> <<",">> \o Digits(e.ins[i])])
        \o Flatten([d \in 1 .. Len(e.order) |-> LoopText(e.order[d])])
        \o <<"\n">>

\* loop_tool::serialize(const IR&)
serialize_ir(ir) == Flatten([k \in 1 .. Len(ir) |-> OpLine(ir[k])])

IsNumber(ds) == ds # <<>> /\ \A i \in 1 .. Len(ds) : IsDigit(ds[i])

IsName(f) == Len(f) = 1 /\ ~IsDigit(f[1])

LoopFieldsOk(f) ==
    /\ Len(f) = 4
    /\ IsName(f[1]) /\ IsNumber(f[2])
    /\ f[3] = <<>> \/ IsName(f[3])
    /\ f[4] \in {<<"r">>, <<"n">>}

OpFieldsOk(f) ==
    /\ Len(f) >= 3
    /\ IsName(f[1])
    /\ \A i \in 2 .. Len(f) : IsNumber(f[i])

LineOk(line) ==
    LET segs == SplitAt(line, ";")
    IN  /\ OpFieldsOk(SplitAt(segs[1], ","))
        /\ \A d \in 2 .. Len(segs) : LoopFieldsOk(SplitAt(segs[d], ","))

ParseLoop(f) ==
    [var |-> f[1][1], extent |-> DigitsValue(f[2]),
     annotation |-> IF f[3] = <<>> THEN "" ELSE f[3][1],
     reuse |-> f[4] = <<"r">>]

ParseLine(line) ==
    LET segs == SplitAt(line, ";")
        f    == SplitAt(segs[1], ",")
    IN  [op |-> f[1][1], out |-> DigitsValue(f[2]), flops |-> DigitsValue(f[3]),
         ins |-> [i \in 1 .. (Len(f) - 3) |-> DigitsValue(f[i + 3])],
         order |-> [d \in 1 .. (Len(segs) - 1) |->
                       ParseLoop(SplitAt(segs[d + 1], ","))]]

\* loop_tool::deserialize(const std::string&): every line must end with a
\* newline and have the form serialize gives it.
deserialize_ir(text) ==
    LET pieces == SplitAt(text, "\n")
        lines  == SubSeq(pieces, 1, Len(pieces) - 1)
    IN  IF pieces[Len(pieces)] # <<>> \/ \E k \in 1 .. Len(lines) : ~LineOk(lines[k])
        THEN [ok |-> FALSE, err |-> "MalformedSerialization", ir |-> <<>>]
        ELSE [ok |-> TRUE, err |-> "none",
              ir |-> [k \in 1 .. Len(lines) |-> ParseLine(lines[k])]]

----------------------------------------------------------------------------
(* LoopTreeAgent (agent.h).  An action returns the agent's state after it:  *)
(* the new (lt, cursor), or, when a call it makes throws, the state at the  *)
(* throw.                                                                   *)

\* msg: the text the failure carries, line by line.
Done(t, c) == [ok |-> TRUE, err |-> "none", lt |-> t, cursor |-> c, msg |-> <<>>]

Thrown(e, t, c) == [ok |-> FALSE, err |-> e, lt |-> t, cursor |-> c, msg |-> <<>>]

\* lt = <engine call>: the assignment happens only if the call returns.
AssignTree(r, t, c) == IF r.ok THEN Done(r.lt, c) ELSE Thrown(r.err, t, c)

\* The keys of actions_fn in the order std::map iterates them.
actions_fn ==
    <<"copy_input_0", "copy_input_1", "decrease_reuse", "down",
      "increase_reuse", "merge", "split_128", "split_16", "split_2",
      "split_256", "split_32", "split_4", "split_64", "split_8",
      "swap_down", "swap_up", "unroll", "up", "vectorize">>

ActionNames == SeqRange(actions_fn)

metrics_fn == <<"FLOPS", "FLOPs", "seconds">>

MetricNames == SeqRange(metrics_fn)

\* help_actions listing the keys of metrics_fn.
help_actions_ListsMetrics == <<"Available actions are:">> \o metrics_fn

\* help_actions / help_metrics: a heading, then every key of the table.
help_actions == <<"Available actions are:">> \o actions_fn

help_metrics == <<"Available metrics are:">> \o metrics_fn

\* What reading past the end of get_inputs' vector can give: a crash, or
\* some value.
NoUB == [crash |-> FALSE, val |-> NoRef]

UBOutcomes ==
    {[crash |-> TRUE, val |-> NoRef]} \cup {[crash |-> FALSE, val |-> x] : x \in {0, 99}}

\* up calling next_ref, as down does.
up_CallsNext(t, c, m) ==
    LET r == next_ref(t, c, m)
    IN  IF r.ok THEN Done(t, r.ref) ELSE Thrown(r.err, t, c)

up(t, c, m) ==
    LET r == previous_ref(t, c, m)
    IN  IF r.ok THEN Done(t, r.ref) ELSE Thrown(r.err, t, c)

down(t, c, m) ==
    LET r == next_ref(t, c, m)
    IN  IF r.ok THEN Done(t, r.ref) ELSE Thrown(r.err, t, c)

swap_up(t, c, m) ==
    LET p == previous_ref(t, c, m)
    IN  IF p.ok THEN AssignTree(try_swap(t, c, p.ref), t, c)
        ELSE Thrown(p.err, t, c)

\* swap_down stepping the cursor first and swapping from there.
swap_down_MovesFirst(t, c, m) ==
    LET n == next_ref(t, c, m)
    IN  IF n.ok THEN AssignTree(try_swap(t, n.ref, c), t, n.ref)
        ELSE Thrown(n.err, t, c)

swap_down(t, c, m) ==
    LET n == next_ref(t, c, m)
    IN  IF n.ok THEN AssignTree(try_swap(t, c, n.ref), t, c)
        ELSE Thrown(n.err, t, c)

agent_split(t, c, split_size) == AssignTree(split(t, c, split_size), t, c)

\* SplitSize with split_128 passing the size of split_256.
SplitSize_Copied(name) ==
    CASE name = "split_2" -> 2
      [] name = "split_4" -> 4
      [] name = "split_8" -> 8
      [] name = "split_16" -> 16
      [] name = "split_32" -> 32
      [] name = "split_64" -> 64
      [] name = "split_128" -> 256
      [] name = "split_256" -> 256

\* split_2 .. split_256: the size each wrapper passes to split.
SplitSize(name) ==
    CASE name = "split_2" -> 2
      [] name = "split_4" -> 4
      [] name = "split_8" -> 8
      [] name = "split_16" -> 16
      [] name = "split_32" -> 32
      [] name = "split_64" -> 64
      [] name = "split_128" -> 128
      [] name = "split_256" -> 256

SplitNames ==
    {"split_2", "split_4", "split_8", "split_16", "split_32", "split_64",
     "split_128", "split_256"}

\* merge swallowing the engine's failure and returning normally.
agent_merge_Swallowed(t, c) ==
    LET r == merge(t, c) IN IF r.ok THEN Done(r.lt, c) ELSE Done(t, c)

agent_merge(t, c) == AssignTree(merge(t, c), t, c)

\* annotate without the comparison: the annotation is always set.
agent_annotate_AlwaysSets(t, c, text) ==
    LET a == annotation(t, c)
    IN  IF ~a.ok THEN Thrown(a.err, t, c)
        ELSE AssignTree(annotate(t, c, text), t, c)

agent_annotate(t, c, text) ==
    LET a == annotation(t, c)
    IN  IF ~a.ok THEN Thrown(a.err, t, c)
        ELSE IF a.text = text THEN AssignTree(annotate(t, c, ""), t, c)
        ELSE AssignTree(annotate(t, c, text), t, c)

vectorize(t, c) == agent_annotate(t, c, "vectorize")

\* unroll passing vectorize's text.
unroll_AsVectorize(t, c) == agent_annotate(t, c, "vectorize")

unroll(t, c) == agent_annotate(t, c, "unroll")

\* copy_input_0 / copy_input_1: get_inputs(lt, cursor)[k] is read unchecked.
agent_copy_input(t, c, k, u) ==
    LET g == get_inputs(t, c)
    IN  IF ~g.ok THEN Thrown(g.err, t, c)
        ELSE IF k < Len(g.ids) THEN AssignTree(copy_input(t, c, g.ids[k + 1]), t, c)
        ELSE IF u.crash THEN Thrown("crash", t, c)
        ELSE AssignTree(copy_input(t, c, u.val), t, c)

copy_input_0(t, c, u) == agent_copy_input(t, c, 0, u)

copy_input_1(t, c, u) == agent_copy_input(t, c, 1, u)

agent_increase_reuse(t, c) == AssignTree(increase_reuse(t, c), t, c)

agent_decrease_reuse(t, c) == AssignTree(decrease_reuse(t, c), t, c)

\* apply_action: the name is looked up, then the action is invoked.  The
\* ASSERT on the lookup fails with the text of help_actions.
apply_action(name, t, c, m, ub) ==
    IF name \notin ActionNames
    THEN [Thrown("UnknownAction", t, c) EXCEPT !.msg = help_actions]
    ELSE CASE name = "up" -> up(t, c, m)
           [] name = "down" -> down(t, c, m)
           [] name = "swap_down" -> swap_down(t, c, m)
           [] name = "swap_up" -> swap_up(t, c, m)
           [] name \in SplitNames -> agent_split(t, c, SplitSize(name))
           [] name = "merge" -> agent_merge(t, c)
           [] name = "vectorize" -> vectorize(t, c)
           [] name = "unroll" -> unroll(t, c)
           [] name = "copy_input_0" -> copy_input_0(t, c, ub.c0)
           [] name = "copy_input_1" -> copy_input_1(t, c, ub.c1)
           [] name = "increase_reuse" -> agent_increase_reuse(t, c)
           [] name = "decrease_reuse" -> agent_decrease_reuse(t, c)

\* eval: the metric is looked up, then computed over the current tree.  The
\* ASSERT on the lookup fails with the text of help_metrics.
eval(metric, t, b) ==
    IF metric \notin MetricNames
    THEN [ok |-> FALSE, err |-> "UnknownMetric", val |-> 0, msg |-> help_metrics]
    ELSE LET r == CASE metric = "FLOPs" -> [ok |-> TRUE, err |-> "none", val |-> FLOPs(t)]
                    [] metric = "FLOPS" -> FLOPS(t, b)
                    [] metric = "seconds" -> eval_runtime(t, b)
         IN  [ok |-> r.ok, err |-> r.err, val |-> r.val, msg |-> <<>>]

\* catch (std::runtime_error e) {}: the failures the trial loop swallows.
Caught(e) == e # "crash"

\* Kept with the push_back moved out of the try block.
Kept_Always(r, avail, name) == Append(avail, name)

\* try { apply_action(name); available_actions.push_back(name); } catch ...
Kept(r, avail, name) == IF r.ok THEN Append(avail, name) ELSE avail

\* RestoreSnapshot without the two assignments: the next trial starts from
\* the result of this one.
RestoreSnapshot_Skipped(r, t_copy, c_copy) == [lt |-> r.lt, cursor |-> r.cursor]

\* lt = lt_copy; cursor = cursor_copy; after each trial.
RestoreSnapshot(r, t_copy, c_copy) == [lt |-> t_copy, cursor |-> c_copy]

\* get_available_actions: the loop over actions_fn from entry i on.
RECURSIVE Trials(_, _, _, _, _, _, _, _)
Trials(i, t, c, t_copy, c_copy, avail, m, ub) ==
    IF i > Len(actions_fn)
    THEN [ok |-> TRUE, err |-> "none", lt |-> t, cursor |-> c, avail |-> avail,
          msg |-> <<>>]
    ELSE LET name == actions_fn[i]
             r    == apply_action(name, t, c, m, ub)
             s    == RestoreSnapshot(r, t_copy, c_copy)
         IN  IF ~r.ok /\ ~Caught(r.err)
             THEN [ok |-> FALSE, err |-> r.err, lt |-> r.lt, cursor |-> r.cursor,
                   avail |-> <<>>, msg |-> r.msg]
             ELSE Trials(i + 1, s.lt, s.cursor, t_copy, c_copy,
                         Kept(r, avail, name), m, ub)

get_available_actions(t, c, m, ub) == Trials(1, t, c, t, c, <<>>, m, ub)

\* LoopTreeAgent(const LoopTree& lt, TreeRef cursor): the members as given.
Agent(t, c) == [lt |-> t, cursor |-> c]

NoAgent == Agent(<<>>, NoRef)

\* The copy constructor with the tree copied as it is, its loops' annotations
\* left behind.
CopyAgent_Bare(t, c) == Agent([i \in 1 .. Len(t) |-> [t[i] EXCEPT !.annotation = ""]], c)

\* LoopTreeAgent(const LoopTreeAgent& agent): the tree is built anew from the
\* graph of agent's tree, the cursor is copied.
CopyAgent(t, c) == Agent(LoopTree(IR(t)), c)

\* serialize writing the cursor's distance from the last node.
serialize_FromEnd(t, c) == to_string(Len(t) - 1 - c) \o <<"\n">> \o serialize_ir(IR(t))

\* serialize: the cursor, a newline, the text of the tree's graph.
serialize(t, c) == to_string(c) \o <<"\n">> \o serialize_ir(IR(t))

\* deserialize: the text before the first newline is converted to the cursor,
\* the text after it is handed to the graph's deserializer.  Without a newline
\* delimiter_pos is -1 and both substr calls give the whole text.
deserialize(ser) ==
    LET delimiter_pos == find(ser, "\n")
        c == stoi(substr(ser, 0, delimiter_pos))
        g == deserialize_ir(substr(ser, delimiter_pos + 1, Len(ser)))
    IN  IF ~c.ok THEN [ok |-> FALSE, err |-> c.err, agent |-> NoAgent]
        ELSE IF ~g.ok THEN [ok |-> FALSE, err |-> g.err, agent |-> NoAgent]
        ELSE [ok |-> TRUE, err |-> "none", agent |-> Agent(LoopTree(g.ir), c.val)]

\* The text dump's callback adds to the line of ref.
Marker(ref, c) ==
    IF ref = c THEN <<"<<<<<< cursor (line ">> \o to_string(c) \o <<" )">> ELSE <<>>

\* LoopTree::dump (section 4.5): a line per node in traversal order, indented
\* by its depth.
DumpLine(n) ==
    [depth |-> n.depth, kind |-> n.kind, var |-> n.var, extent |-> n.extent,
     annotation |-> n.annotation, op |-> n.op]

\* dump: the tree's lines, the cursor's node marked.
dump(t, c) ==
    [i \in 1 .. Len(t) |-> [node |-> DumpLine(t[i]), mark |-> Marker(i - 1, c)]]

----------------------------------------------------------------------------
(* The agent as a state machine: one step per call of its public interface. *)

\* Trees a LoopTree is constructed with: one loop of extent 64 over one
\* operation (the scenario of section 8), and one loop of extent 6 over two
\* independent operations, the second of which reads no tensor.
InitTrees ==
    { <<Loop("i", 64, 0), Leaf("add", 2, <<0, 1>>, 1, 1)>>,
      <<Loop("i", 6, 0), Leaf("mul", 2, <<0, 1>>, 1, 1), Leaf("fill", 3, <<>>, 1, 1)>> }

\* The call made last and its outcome: what the caller of the agent saw.
Called(kind, op, ok, err, avail, val, ub) ==
    [kind |-> kind, op |-> op, ok |-> ok, err |-> err, avail |-> avail,
     val |-> val, ub |-> ub, msg |-> <<>>, text |-> <<>>, lines |-> <<>>,
     agent |-> NoAgent]

NoUBs == [c0 |-> NoUB, c1 |-> NoUB]

Idle == Called("idle", "", TRUE, "none", <<>>, 0, NoUBs)

\* The outcomes of the k-th input's read: undefined only past the end.
ReadOutcomes(t, c, k) ==
    IF get_inputs(t, c).ok /\ Len(get_inputs(t, c).ids) <= k THEN UBOutcomes ELSE {NoUB}

Fits(t) ==
    /\ Len(t) <= MaxNodes
    /\ \A j \in Refs(t) : Node(t, j).extent <= MaxExtent

Init ==
    /\ lt \in InitTrees
    /\ cursor = 0
    /\ navMode \in NavModes
    /\ last = Idle
    /\ copied = NoAgent
    /\ calls = 0

\* The core is synchronous (section 5): a call is issued once the caller has
\* taken the result of the call before it.
Ready == last = Idle

\* The caller takes the result of the call; after a crash there is no caller.
Return ==
    /\ last # Idle
    /\ last.err # "crash"
    /\ last' = Idle
    /\ UNCHANGED <<lt, cursor, navMode, copied, calls>>

ApplyAction(name, ub) ==
    /\ Ready
    /\ LET r == apply_action(name, lt, cursor, navMode, ub)
       IN  /\ Fits(r.lt)
           /\ lt' = r.lt
           /\ cursor' = r.cursor
           /\ last' = [Called("action", name, r.ok, r.err, <<>>, 0, ub)
                          EXCEPT !.msg = r.msg]
    /\ UNCHANGED <<navMode, copied, calls>>

Up == ApplyAction("up", NoUBs)

Down == ApplyAction("down", NoUBs)

SwapDown == ApplyAction("swap_down", NoUBs)

SwapUp == ApplyAction("swap_up", NoUBs)

Split2 == ApplyAction("split_2", NoUBs)

Split4 == ApplyAction("split_4", NoUBs)

Split8 == ApplyAction("split_8", NoUBs)

Split16 == ApplyAction("split_16", NoUBs)

Split32 == ApplyAction("split_32", NoUBs)

Split64 == ApplyAction("split_64", NoUBs)

Split128 == ApplyAction("split_128", NoUBs)

Split256 == ApplyAction("split_256", NoUBs)

Merge == ApplyAction("merge", NoUBs)

Vectorize == ApplyAction("vectorize", NoUBs)

Unroll == ApplyAction("unroll", NoUBs)

CopyInput0 ==
    \E u \in ReadOutcomes(lt, cursor, 0) :
        ApplyAction("copy_input_0", [c0 |-> u, c1 |-> NoUB])

CopyInput1 ==
    \E u \in ReadOutcomes(lt, cursor, 1) :
        ApplyAction("copy_input_1", [c0 |-> NoUB, c1 |-> u])

IncreaseReuse == ApplyAction("increase_reuse", NoUBs)

DecreaseReuse == ApplyAction("decrease_reuse", NoUBs)

\* Names a caller may pass that are no key of actions_fn: other spellings of
\* a key, a size that has no wrapper, a metric's name, the empty name.
OtherActionNames == {"Up", "split_3", "FLOPs", ""}

ApplyOther == \E name \in OtherActionNames : ApplyAction(name, NoUBs)

GetAvailableActions ==
    /\ Ready
    /\ \E u0 \in ReadOutcomes(lt, cursor, 0), u1 \in ReadOutcomes(lt, cursor, 1) :
         LET ub == [c0 |-> u0, c1 |-> u1]
             r  == get_available_actions(lt, cursor, navMode, ub)
         IN  /\ lt' = r.lt
             /\ cursor' = r.cursor
             /\ last' = Called("get_available_actions", "", r.ok, r.err, r.avail, 0, ub)
    /\ UNCHANGED <<navMode, copied, calls>>

\* Eval with the metric run on the agent's own tree, which comes back from
\* the backend without its annotations.
Eval_InPlace(metric) ==
    /\ Ready
    /\ \E b \in (IF metric = "FLOPs" THEN {[ok |-> TRUE, secs |-> 0]} ELSE BackendOutcomes) :
         LET r == eval(metric, lt, b)
         IN  last' = [Called("eval", metric, r.ok, r.err, <<>>, r.val, NoUBs)
                         EXCEPT !.msg = r.msg]
    /\ lt' = [i \in 1 .. Len(lt) |-> [lt[i] EXCEPT !.annotation = ""]]
    /\ UNCHANGED <<cursor, navMode, copied, calls>>

Eval(metric) ==
    /\ Ready
    /\ \E b \in (IF metric = "FLOPs" THEN {[ok |-> TRUE, secs |-> 0]} ELSE BackendOutcomes) :
         LET r == eval(metric, lt, b)
         IN  last' = [Called("eval", metric, r.ok, r.err, <<>>, r.val, NoUBs)
                         EXCEPT !.msg = r.msg]
    /\ UNCHANGED <<lt, cursor, navMode, copied, calls>>

EvalFLOPs == Eval("FLOPs")

EvalFLOPS == Eval("FLOPS")

EvalSeconds == Eval("seconds")

\* Names a caller may pass that are no key of metrics_fn.
OtherMetricNames == {"flops", "Seconds", "up"}

EvalOther == \E metric \in OtherMetricNames : Eval(metric)

Serialize ==
    /\ Ready
    /\ last' = [Called("serialize", "", TRUE, "none", <<>>, 0, NoUBs)
                    EXCEPT !.text = serialize(lt, cursor)]
    /\ UNCHANGED <<lt, cursor, navMode, copied, calls>>

\* Texts handed to deserialize: what serialize wrote for the agent, and that
\* text with its first line damaged: cut off after the cursor, without the
\* delimiter, with no cursor, with a word for the cursor, with a letter after
\* the cursor.
Texts(t, c) ==
    { serialize(t, c),
      to_string(c),
      to_string(c) \o serialize_ir(IR(t)),
      <<"\n">> \o serialize_ir(IR(t)),
      <<"x", "\n">> \o serialize_ir(IR(t)),
      to_string(c) \o <<"x", "\n">> \o serialize_ir(IR(t)) }

\* deserialize returns a new agent and leaves the one it is called on alone.
Deserialize ==
    /\ Ready
    /\ \E ser \in Texts(lt, cursor) :
         LET r == deserialize(ser)
         IN  last' = [Called("deserialize", "", r.ok, r.err, <<>>, 0, NoUBs)
                         EXCEPT !.text = ser, !.agent = r.agent]
    /\ UNCHANGED <<lt, cursor, navMode, copied, calls>>

Dump ==
    /\ Ready
    /\ last' = [Called("dump", "", TRUE, "none", <<>>, 0, NoUBs)
                    EXCEPT !.lines = dump(lt, cursor)]
    /\ UNCHANGED <<lt, cursor, navMode, copied, calls>>

Next ==
    \/ Up \/ Down \/ SwapDown \/ SwapUp
    \/ Split2 \/ Split4 \/ Split8 \/ Split16
    \/ Split32 \/ Split64 \/ Split128 \/ Split256
    \/ Merge \/ Vectorize \/ Unroll
    \/ CopyInput0 \/ CopyInput1
    \/ IncreaseReuse \/ DecreaseReuse
    \/ GetAvailableActions
    \/ EvalFLOPs \/ EvalFLOPS \/ EvalSeconds
    \/ ApplyOther \/ EvalOther
    \/ Serialize \/ Deserialize \/ Dump
    \/ Return

Spec == Init /\ [][Next]_vars

----------------------------------------------------------------------------
(* An agent and its copy (section 5): calls on the one and on the other, in *)
(* any order, up to MaxCalls of them.                                       *)

\* The outcomes of the reads of one call of the named action.
ReadsOf(name, t, c) ==
    IF name = "copy_input_0"
    THEN {[c0 |-> u, c1 |-> NoUB] : u \in ReadOutcomes(t, c, 0)}
    ELSE IF name = "copy_input_1"
    THEN {[c0 |-> NoUB, c1 |-> u] : u \in ReadOutcomes(t, c, 1)}
    ELSE {NoUBs}

\* A call can be made: the process has not crashed and the bound is not met.
CanCall == last.err # "crash" /\ calls < MaxCalls

\* LoopTreeAgent copied(agent)
CopyConstruct ==
    /\ CanCall
    /\ copied = NoAgent
    /\ copied' = CopyAgent(lt, cursor)
    /\ last' = Called("copy", "", TRUE, "none", <<>>, 0, NoUBs)
    /\ calls' = calls + 1
    /\ UNCHANGED <<lt, cursor, navMode>>

\* agent.apply_action(name)
ThisApplies ==
    /\ CanCall
    /\ \E name \in ActionNames : \E ub \in ReadsOf(name, lt, cursor) :
         LET r == apply_action(name, lt, cursor, navMode, ub)
         IN  /\ Fits(r.lt)
             /\ lt' = r.lt
             /\ cursor' = r.cursor
             /\ last' = Called("action", name, r.ok, r.err, <<>>, 0, ub)
    /\ calls' = calls + 1
    /\ UNCHANGED <<navMode, copied>>

\* copied.apply_action(name)
CopiedApplies ==
    /\ CanCall
    /\ copied # NoAgent
    /\ \E name \in ActionNames : \E ub \in ReadsOf(name, copied.lt, copied.cursor) :
         LET r == apply_action(name, copied.lt, copied.cursor, navMode, ub)
         IN  /\ Fits(r.lt)
             /\ copied' = Agent(r.lt, r.cursor)
             /\ last' = Called("copied_action", name, r.ok, r.err, <<>>, 0, ub)
    /\ calls' = calls + 1
    /\ UNCHANGED <<lt, cursor, navMode>>

NextTwo == CopyConstruct \/ ThisApplies \/ CopiedApplies

SpecTwo == Init /\ [][NextTwo]_vars

----------------------------------------------------------------------------
(* Properties. *)

Returned(kind) == last.kind = kind /\ last.ok

\* C1: after get_available_actions returns, the agent's tree and cursor are
\* what they were before the call, whichever trials succeeded or failed, and
\* a second call from there gives the same list.
C1_AvailableActionsKeepsState ==
    [][(last'.kind = "get_available_actions" /\ last'.ok)
        => /\ lt' = lt
           /\ cursor' = cursor
           /\ get_available_actions(lt', cursor', navMode', last'.ub).avail
                = last'.avail]_vars

\* A call that returned after some trials succeeded and some failed.
C1_Witness ==
    /\ Returned("get_available_actions")
    /\ Len(last.avail) > 0
    /\ Len(last.avail) < Len(actions_fn)

\* C2: get_available_actions returns exactly the registered names whose
\* apply_action, issued from the state at the call, succeeds: each once, in
\* the table's order (an undefined read resolves as it did in the trial).
C2_AvailableActionsAreTheLegalOnes ==
    [][(last'.kind = "get_available_actions" /\ last'.ok)
        => LET Legal(a) == apply_action(a, lt, cursor, navMode, last'.ub).ok
           IN  /\ last'.avail = SelectSeq(actions_fn, Legal)
               /\ Cardinality(SeqRange(last'.avail)) = Len(last'.avail)
               /\ SeqRange(last'.avail) \subseteq ActionNames]_vars

\* A call that found down legal and up not (the cursor on the first node).
C2_Witness ==
    /\ Returned("get_available_actions")
    /\ "down" \in SeqRange(last.avail)
    /\ "up" \notin SeqRange(last.avail)
    /\ "merge" \in SeqRange(last.avail)

\* C3: an apply_action that fails leaves the agent's tree and cursor exactly
\* as they were before the call.
C3_FailedActionKeepsState ==
    [][(last'.kind = "action" /\ ~last'.ok)
        => (lt' = lt /\ cursor' = cursor)]_vars

\* A swap_down that failed with the cursor on a node that has a next node.
C3_Witness ==
    /\ last.kind = "action" /\ last.op = "swap_down" /\ ~last.ok
    /\ IsRef(lt, cursor) /\ cursor < Len(lt) - 1

\* C4: in every reachable state the cursor refers to a node of the tree.
C4_CursorIsNode == IsRef(lt, cursor)

\* The sizes in the names of the split actions.
SplitTable ==
    {<<"split_2", 2>>, <<"split_4", 4>>, <<"split_8", 8>>, <<"split_16", 16>>,
     <<"split_32", 32>>, <<"split_64", 64>>, <<"split_128", 128>>,
     <<"split_256", 256>>}

\* C5: with the cursor on a loop of extent N, split_k succeeds; the loop is
\* replaced by an outer loop of extent ceil(N/k) with an inner loop of extent
\* k as its only child, the former descendants sit under the inner loop, the
\* rest of the tree is as before, and the cursor is on the outer loop.
C5_SplitShape ==
    \A p \in SplitTable :
        IsLoop(lt, cursor) =>
            LET r == apply_action(p[1], lt, cursor, navMode, NoUBs)
                k == p[2]
                n == Node(lt, cursor)
                e == SubtreeEnd(lt, cursor)
                outer == Node(r.lt, cursor)
                inner == Node(r.lt, cursor + 1)
            IN  /\ r.ok
                /\ r.cursor = cursor
                /\ Len(r.lt) = Len(lt) + 1
                /\ outer.kind = "loop" /\ outer.depth = n.depth
                /\ (outer.extent - 1) * k < n.extent /\ n.extent <= outer.extent * k
                /\ inner.kind = "loop" /\ inner.depth = n.depth + 1
                /\ inner.extent = k
                /\ {j \in Refs(r.lt) : Parent(r.lt, j) = cursor} = {cursor + 1}
                /\ \A j \in (cursor + 1) .. e :
                       /\ Node(r.lt, j + 1) = [Node(lt, j) EXCEPT !.depth = @ + 1]
                       /\ (cursor + 1) \in Ancestors(r.lt, j + 1)
                /\ \A j \in 0 .. (cursor - 1) : Node(r.lt, j) = Node(lt, j)
                /\ \A j \in (e + 1) .. (Len(lt) - 1) : Node(r.lt, j + 1) = Node(lt, j)

\* The scenario of section 8: split_16 of the loop of extent 64 gave an outer
\* loop of extent 4 over an inner loop of extent 16, the cursor on the outer.
C5_Witness ==
    /\ last.kind = "action" /\ last.op = "split_16" /\ last.ok
    /\ cursor = 0 /\ Len(lt) = 3
    /\ Node(lt, 0).kind = "loop" /\ Node(lt, 0).extent = 4
    /\ Node(lt, 1).kind = "loop" /\ Node(lt, 1).extent = 16
    /\ Node(lt, 2).kind = "leaf" /\ Node(lt, 2).depth = 2

\* C6: FLOPs is the same before and after every successful vectorize,
\* unroll, swap_up, swap_down, split_k and merge.
C6_FLOPsUnchanged ==
    [][(/\ last'.kind = "action" /\ last'.ok
        /\ last'.op \in {"vectorize", "unroll", "swap_up", "swap_down", "merge"}
                          \cup SplitNames)
        => FLOPs(lt') = FLOPs(lt)]_vars

\* C7: split_k of a loop of extent N followed by merge at the outer loop
\* gives a loop of extent N at that position.
C7_SplitMergeRoundTrip ==
    \A name \in SplitNames :
        IsLoop(lt, cursor) =>
            LET s == apply_action(name, lt, cursor, navMode, NoUBs)
                m == apply_action("merge", s.lt, s.cursor, navMode, NoUBs)
            IN  /\ s.ok /\ m.ok
                /\ Node(m.lt, m.cursor).extent = Node(lt, cursor).extent

\* The cursor's node has exactly one child, and that child is a loop.
SoleLoopChild(t, c) ==
    /\ IsRef(t, c)
    /\ Cardinality({j \in Refs(t) : Parent(t, j) = c}) = 1
    /\ \A j \in Refs(t) : Parent(t, j) = c => Node(t, j).kind = "loop"

\* C8: merge fails with IllegalMutation and leaves tree and cursor unchanged
\* whenever the cursor's node is a leaf or, more generally, does not have
\* exactly one child that is a loop.
C8_MergeIllegal ==
    ~SoleLoopChild(lt, cursor) =>
        LET r == apply_action("merge", lt, cursor, navMode, NoUBs)
        IN  /\ ~r.ok /\ r.err = "IllegalMutation"
            /\ r.lt = lt /\ r.cursor = cursor

\* A merge that failed with the cursor on a leaf.
C8_Witness ==
    /\ last.kind = "action" /\ last.op = "merge" /\ ~last.ok
    /\ last.err = "IllegalMutation"
    /\ IsLeaf(lt, cursor)

Twice(text) ==
    LET a == apply_action(text, lt, cursor, navMode, NoUBs)
    IN  [first |-> a, second |-> apply_action(text, a.lt, a.cursor, navMode, NoUBs)]

\* C9 as stated: with the cursor on a loop, vectorize twice in succession
\* (and unroll twice) leaves the node with the empty annotation.
C9_TwiceClears ==
    \A text \in {"vectorize", "unroll"} :
        IsLoop(lt, cursor) =>
            /\ Twice(text).first.ok /\ Twice(text).second.ok
            /\ Node(Twice(text).second.lt, cursor).annotation = ""

\* C9 as amended: with the cursor on a loop whose annotation is not already
\* the one applied, vectorize twice (unroll twice) leaves the node with the
\* empty annotation; on a loop that already carries it, the first call
\* clears it and the second sets it again.  No other node changes.
C9_TwiceToggles ==
    \A text \in {"vectorize", "unroll"} :
        IsLoop(lt, cursor) =>
            LET r == Twice(text).second
            IN  /\ Twice(text).first.ok /\ r.ok /\ r.cursor = cursor
                /\ Node(r.lt, cursor).annotation =
                      (IF Node(lt, cursor).annotation = text THEN text ELSE "")
                /\ r.lt = [lt EXCEPT ![cursor + 1].annotation =
                                        Node(r.lt, cursor).annotation]

\* A vectorize that cleared the annotation of the cursor's loop: the second
\* of two.
C9_Witness ==
    /\ last.kind = "action" /\ last.op = "vectorize" /\ last.ok
    /\ IsLoop(lt, cursor) /\ Node(lt, cursor).annotation = ""

\* C10: with the cursor on a node that is not the last one, down followed by
\* up both succeed and give back the cursor, the tree unchanged.
C10_DownThenUp ==
    (IsRef(lt, cursor) /\ cursor # Len(lt) - 1) =>
        LET d == apply_action("down", lt, cursor, navMode, NoUBs)
            u == apply_action("up", d.lt, d.cursor, navMode, NoUBs)
        IN  /\ d.ok /\ u.ok
            /\ d.cursor # cursor
            /\ u.cursor = cursor
            /\ d.lt = lt /\ u.lt = lt

\* An up that succeeded and left the cursor on a node that is not the last:
\* the cursor is back where a down can be taken again.
C10_Witness ==
    /\ last.kind = "action" /\ last.op = "up" /\ last.ok
    /\ IsRef(lt, cursor) /\ cursor < Len(lt) - 1
    /\ apply_action("down", lt, cursor, navMode, NoUBs).cursor = cursor + 1

\* The cursor is on the node where the named navigation meets the boundary.
AtBoundary(op, t, c) ==
    \/ op = "up" /\ c = 0
    \/ op = "down" /\ c = Len(t) - 1

\* C11: up with the cursor on the first node, and down with the cursor on the
\* last node, fail or make no movement; afterwards the cursor is the same
\* node of the tree as before, never the node at the other end and never a
\* value that is no node.
C11_BoundaryKeepsCursor ==
    [][(/\ last'.kind = "action" /\ last'.op \in {"up", "down"}
        /\ IsRef(lt, cursor) /\ AtBoundary(last'.op, lt, cursor))
        => /\ lt' = lt
           /\ cursor' = cursor
           /\ IsRef(lt', cursor')]_vars


\* C12: in get_available_actions a trial that fails with IllegalMutation is
\* swallowed and its name left out of the list; a trial that fails with any
\* other kind of error ends the call with that error.
C12_OnlyIllegalMutationSwallowed ==
    [][(last'.kind = "get_available_actions")
        => LET Trial(i) == apply_action(actions_fn[i], lt, cursor, navMode, last'.ub)
               Other == {i \in 1 .. Len(actions_fn) :
                            ~Trial(i).ok /\ Trial(i).err # "IllegalMutation"}
           IN  IF Other = {}
               THEN /\ last'.ok
                    /\ \A i \in 1 .. Len(actions_fn) :
                           ~Trial(i).ok => actions_fn[i] \notin SeqRange(last'.avail)
               ELSE /\ ~last'.ok
                    /\ last'.err = Trial(SetMin(Other)).err]_vars


\* C13: apply_action with a name that is no key of the action table fails
\* with an unknown-action error whose text lists every registered action, and
\* eval with a name that is no key of the metric table fails with an
\* unknown-metric error whose text lists every registered metric; tree and
\* cursor are unchanged.  A name that is a key never fails this way.
C13_UnknownNameRejected ==
    [][/\ (last'.kind = "action" /\ last'.op \notin ActionNames)
            => /\ ~last'.ok /\ last'.err = "UnknownAction"
               /\ ActionNames \subseteq SeqRange(last'.msg)
               /\ Cardinality(ActionNames) = 19
               /\ lt' = lt /\ cursor' = cursor
       /\ (last'.kind = "eval" /\ last'.op \notin {"FLOPs", "FLOPS", "seconds"})
            => /\ ~last'.ok /\ last'.err = "UnknownMetric"
               /\ {"FLOPs", "FLOPS", "seconds"} \subseteq SeqRange(last'.msg)
               /\ lt' = lt /\ cursor' = cursor
       /\ (last'.kind = "action" /\ last'.op \in ActionNames)
            => last'.err # "UnknownAction"
       /\ (last'.kind = "eval" /\ last'.op \in {"FLOPs", "FLOPS", "seconds"})
            => last'.err # "UnknownMetric"]_vars

\* An apply_action("Up") that failed as unknown with the cursor where up
\* itself is legal.
C13_Witness ==
    /\ last.kind = "action" /\ last.op = "Up" /\ last.err = "UnknownAction"
    /\ "up" \in SeqRange(last.msg)
    /\ apply_action("up", lt, cursor, navMode, NoUBs).ok
    /\ IsRef(lt, cursor) /\ cursor > 0


\* C14: for every reachable state of the agent, deserialize(serialize(agent))
\* gives an agent with the same cursor and an equivalent tree (the same loops,
\* extents, nesting, annotations and leaves), whose dump is the original's,
\* the cursor's mark on the same line.
C14_SerializeRoundTrip ==
    LET r == deserialize(serialize(lt, cursor))
    IN  /\ r.ok
        /\ r.agent.cursor = cursor
        /\ r.agent.lt = lt
        /\ dump(r.agent.lt, r.agent.cursor) = dump(lt, cursor)

\* A deserialize of the text serialize wrote for an agent whose tree was
\* split and annotated and whose cursor is on the last node.
C14_Witness ==
    /\ last.kind = "deserialize" /\ last.ok
    /\ last.text = serialize(lt, cursor)
    /\ last.agent = Agent(lt, cursor)
    /\ Len(lt) = 3 /\ cursor = 2
    /\ IsLoop(lt, 1) /\ Node(lt, 1).annotation = "vectorize"

\* A line that is a number: digits, with or without a sign before them.
IsInteger(line) ==
    \/ IsNumber(line)
    \/ line # <<>> /\ Head(line) = "-" /\ IsNumber(Tail(line))

FirstLine(text) == SplitAt(text, "\n")[1]

\* C15: deserialize fails with MalformedSerialization and gives no agent
\* whenever the text has no newline or its first line is not a number.
C15_MalformedRejected ==
    (/\ last.kind = "deserialize"
     /\ find(last.text, "\n") < 0 \/ ~IsInteger(FirstLine(last.text)))
        => /\ ~last.ok
           /\ last.err = "MalformedSerialization"
           /\ last.agent = NoAgent


\* C16: the copy of an agent has the agent's cursor and a tree equal to the
\* agent's, so the two dump alike; afterwards a call on one of the two, in
\* whatever order the calls come, leaves the other's tree and cursor as they
\* were.
C16_CopyIsIndependent ==
    [][/\ (last'.kind = "copy")
            => /\ copied'.cursor = cursor
               /\ copied'.lt = lt
               /\ dump(copied'.lt, copied'.cursor) = dump(lt, cursor)
               /\ lt' = lt /\ cursor' = cursor
       /\ (last'.kind = "action") => copied' = copied
       /\ (last'.kind = "copied_action") => (lt' = lt /\ cursor' = cursor)]_vars

\* The copy was made of an agent whose loop was split, then the copy merged
\* the two loops again and the agent annotated its own: the trees differ.
C16_Witness ==
    /\ copied # NoAgent
    /\ Len(lt) = 3 /\ Len(copied.lt) = 2
    /\ Node(lt, 0).annotation = "vectorize"
    /\ Node(copied.lt, 0).annotation = ""
    /\ last.kind = "action" /\ last.op = "vectorize"


\* C17: eval leaves the agent's tree and cursor as they were, whether it
\* returns a value or fails; after a failure of the backend the agent is in
\* the state it was in and takes further calls.
C17_EvalKeepsState ==
    [][(last'.kind = "eval")
        => /\ lt' = lt
           /\ cursor' = cursor
           /\ last'.err # "crash"
           /\ \A name \in ActionNames :
                 apply_action(name, lt', cursor', navMode', NoUBs)
                     = apply_action(name, lt, cursor, navMode, NoUBs)]_vars

\* An eval("seconds") that failed in the backend on a tree with a vectorized
\* loop, the cursor where down is legal.
C17_Witness ==
    /\ last.kind = "eval" /\ last.op = "seconds"
    /\ ~last.ok /\ last.err = "LoweringUnsupported"
    /\ \E j \in Refs(lt) : Node(lt, j).annotation = "vectorize"
    /\ apply_action("down", lt, cursor, navMode, NoUBs).ok


\* C18: every loop's annotation is one of "", "vectorize", "unroll".  With
\* the cursor on a loop, vectorize and unroll succeed and put their own text
\* in place of a different annotation (their own text they clear); no other
\* node and no other field changes.  With the cursor on a leaf they fail with
\* IllegalMutation and change nothing.
C18_OneAnnotation ==
    /\ \A j \in Refs(lt) :
           /\ Node(lt, j).annotation \in {"", "vectorize", "unroll"}
           /\ Node(lt, j).kind = "leaf" => Node(lt, j).annotation = ""
    /\ \A text \in {"vectorize", "unroll"} :
           LET r   == apply_action(text, lt, cursor, navMode, NoUBs)
               old == Node(lt, cursor).annotation
           IN  /\ IsLoop(lt, cursor)
                    => /\ r.ok /\ r.cursor = cursor
                       /\ r.lt = [lt EXCEPT ![cursor + 1].annotation =
                                               IF old = text THEN "" ELSE text]
               /\ IsLeaf(lt, cursor)
                    => /\ ~r.ok /\ r.err = "IllegalMutation"
                       /\ r.lt = lt /\ r.cursor = cursor

\* A vectorize that succeeded on one of two nested loops, the other loop
\* still annotated unroll; an unroll from here would take vectorize's place.
C18_Witness ==
    /\ last.kind = "action" /\ last.op = "vectorize" /\ last.ok
    /\ Len(lt) = 3 /\ IsLoop(lt, 0) /\ IsLoop(lt, 1) /\ IsLoop(lt, cursor)
    /\ Node(lt, cursor).annotation = "vectorize"
    /\ Node(lt, 1 - cursor).annotation = "unroll"
    /\ Node(apply_action("unroll", lt, cursor, navMode, NoUBs).lt, cursor).annotation
           = "unroll"


\* The cursor's node has fewer inputs than the named copy_input reads.
TooFewInputs(name, t, c) ==
    /\ IsRef(t, c)
    /\ \/ name = "copy_input_0" /\ Len(get_inputs(t, c).ids) < 1
       \/ name = "copy_input_1" /\ Len(get_inputs(t, c).ids) < 2

\* C19: copy_input_0 (copy_input_1) with the cursor on a node that has fewer
\* than 1 (2) inputs fails with IllegalMutation and leaves tree and cursor as
\* they were, and get_available_actions called there returns and does not
\* list it.
C19_MissingInputIsIllegal ==
    [][/\ (last'.kind = "action" /\ TooFewInputs(last'.op, lt, cursor))
            => /\ ~last'.ok /\ last'.err = "IllegalMutation"
               /\ lt' = lt /\ cursor' = cursor
       /\ (last'.kind = "get_available_actions")
            => \A name \in {"copy_input_0", "copy_input_1"} :
                   TooFewInputs(name, lt, cursor)
                       => (last'.ok /\ name \notin SeqRange(last'.avail))]_vars


\* What a node is, wherever it sits in the tree.
Payload(n) == [n EXCEPT !.depth = 0]

\* C20: after a successful swap_up or swap_down the cursor is on the node it
\* was on before the swap; after a successful merge it is on the merged loop;
\* a successful up or down leaves the tree as it was.
C20_CursorFollowsNode ==
    [][(last'.kind = "action" /\ last'.ok)
        => /\ last'.op \in {"swap_up", "swap_down"}
                => /\ IsRef(lt', cursor')
                   /\ Payload(Node(lt', cursor')) = Payload(Node(lt, cursor))
           /\ last'.op = "merge"
                => /\ IsLoop(lt', cursor')
                   /\ Node(lt', cursor').var = Node(lt, cursor).var
                   /\ Node(lt', cursor').extent
                        = Node(lt, cursor).extent * Node(lt, cursor + 1).extent
                   /\ Len(lt') = Len(lt) - 1
           /\ last'.op \in {"up", "down"} => lt' = lt]_vars


====
